---- MODULE Spec2Model ----
(***************************************************************************)
(* Model of cumulus_geoproc/utils/__init__.py: the extension rewriter      *)
(* file_extension and the archive decompressor decompress.                 *)
(*                                                                         *)
(* Strings and paths are sequences of one-character strings, so that       *)
(* str.endswith, str.replace, slicing, os.path.join, os.path.abspath and   *)
(* os.path.commonprefix are computed character by character as Python      *)
(* computes them.                                                          *)
(***************************************************************************)
EXTENDS Integers, Sequences, FiniteSets, TLC

VARIABLES
    rw,         \* arguments of the file_extension call under examination
    rwout,      \* its outcome: <<>> before the call, <<[raised, val]>> after
    inp,        \* arguments of the top-level decompress call
    fs,         \* regular files: path -> content
    dirs,       \* directories that exist
    stack,      \* decompress activation records, innermost last
    result,     \* outcome of the top-level call: <<>> while running
    probes,     \* history: number of gzip/zip/tar probes attempted so far
    extracted,  \* history: paths written by tar/zip extractall
    calls       \* history: the nested decompress calls, in order

vars == <<rw, rwout, inp, fs, dirs, stack, result, probes, extracted, calls>>

rwvars == <<rw, rwout>>
dcvars == <<inp, fs, dirs, stack, result, probes, extracted, calls>>

\* ------------------------------------------------------------------ bounds
\* maxsplit is drawn from -MaxSplit .. MaxSplit
MaxSplit == 3
\* raw payloads are numbered 1 .. NumPayloads
NumPayloads == 2

\* ----------------------------------------------------------------- strings
Min(a, b) == IF a <= b THEN a ELSE b

\* str.endswith(e)
EndsWith(s, e) ==
    /\ Len(e) <= Len(s)
    /\ SubSeq(s, Len(s) - Len(e) + 1, Len(s)) = e

\* str.startswith(e)
StartsWith(s, e) ==
    /\ Len(e) <= Len(s)
    /\ SubSeq(s, 1, Len(e)) = e

\* Python slice s[-n:] for n > 0: the last n characters, or all of s when
\* s is shorter than n
LastChars(s, n) ==
    IF n >= Len(s) THEN s ELSE SubSeq(s, Len(s) - n + 1, Len(s))

\* str.replace(old, new) for non-empty old: every non-overlapping occurrence
\* of old, scanning left to right, is replaced
RECURSIVE Replace(_, _, _)
Replace(s, old, new) ==
    IF Len(s) < Len(old) THEN s
    ELSE IF StartsWith(s, old)
         THEN new \o Replace(SubSeq(s, Len(old) + 1, Len(s)), old, new)
         ELSE <<Head(s)>> \o Replace(Tail(s), old, new)

\* ------------------------------------------------------------------- EXTS
EXTS ==
    << <<".", "b", "i", "l">>,
       <<".", "b", "i", "n">>,
       <<".", "d", "a", "t">>,
       <<".", "g", "z">>,
       <<".", "g", "r", "b">>,
       <<".", "g", "r", "b", ".", "g", "z">>,
       <<".", "g", "r", "b", "2">>,
       <<".", "g", "r", "i", "b">>,
       <<".", "g", "r", "i", "b", ".", "g", "z">>,
       <<".", "g", "r", "i", "b", "2">>,
       <<".", "g", "r", "i", "b", "2", ".", "g", "z">>,
       <<".", "n", "c">>,
       <<".", "t", "a", "r">>,
       <<".", "t", "a", "r", ".", "g", "z">>,
       <<".", "t", "i", "f">>,
       <<".", "t", "i", "f", "f">>,
       <<".", "t", "x", "t">>,
       <<".", "z", "i", "p">> >>

\* str.endswith(tuple): true when the string ends with any entry
EndsWithAny(s, es) == \E i \in 1..Len(es) : EndsWith(s, es[i])

\* the list comprehension of file_extension:
\*   [file.replace(file[-len(e):], suffix) for e in EXTS if file[-len(e):] == e]
\* built from entry i of EXTS onwards, in the order of EXTS
RECURSIVE Candidates(_, _, _)
Candidates(file, suffix, i) ==
    IF i > Len(EXTS) THEN <<>>
    ELSE LET e    == EXTS[i]
             tail == LastChars(file, Len(e))
         IN  IF tail = e
             THEN <<Replace(file, tail, suffix)>> \o Candidates(file, suffix, i + 1)
             ELSE Candidates(file, suffix, i + 1)

\* Python list indexing l[k]: 0-based, negative k counts from the end,
\* IndexError outside [-len, len-1]
PyIndex(l, k) ==
    IF k >= 0 /\ k < Len(l) THEN [raised |-> "none", val |-> l[k + 1]]
    ELSE IF k < 0 /\ k + Len(l) >= 0
         THEN [raised |-> "none", val |-> l[k + Len(l) + 1]]
         ELSE [raised |-> "IndexError", val |-> <<>>]

\* file_extension(file, preffix, suffix, extension, maxsplit).  An absent
\* preffix or extension (None) is the empty sequence; a given preffix is
\* <<p>>; a given extension is the tuple of candidate extensions.
file_extension(file, preffix, suffix, extension, maxsplit) ==
    LET f     == IF preffix # <<>> THEN preffix[1] \o file ELSE file
        exts_ == IF extension # <<>> THEN extension ELSE EXTS
    IN  IF EndsWithAny(f, exts_)
        THEN LET file_ == Candidates(f, suffix, 1)
                 ms    == IF maxsplit > 0 THEN maxsplit - 1 ELSE maxsplit
             IN  PyIndex(file_, Min(Len(file_) - 1, ms))
        ELSE [raised |-> "none", val |-> f \o suffix]

\* ------------------------------------------------------------------- paths
\* str.split("/")
RECURSIVE SplitFrom(_, _, _)
SplitFrom(p, i, cur) ==
    IF i > Len(p) THEN <<cur>>
    ELSE IF p[i] = "/" THEN <<cur>> \o SplitFrom(p, i + 1, <<>>)
         ELSE SplitFrom(p, i + 1, Append(cur, p[i]))

Split(p) == SplitFrom(p, 1, <<>>)

\* "/".join(comps)
RECURSIVE JoinComps(_)
JoinComps(comps) ==
    IF comps = <<>> THEN <<>>
    ELSE IF Len(comps) = 1 THEN comps[1]
         ELSE comps[1] \o <<"/">> \o JoinComps(Tail(comps))

\* the component loop of posixpath.normpath
RECURSIVE NormComps(_, _, _, _)
NormComps(comps, i, acc, isabs) ==
    IF i > Len(comps) THEN acc
    ELSE LET c == comps[i]
         IN  IF c = <<>> \/ c = <<".">> THEN NormComps(comps, i + 1, acc, isabs)
             ELSE IF \/ c # <<".", ".">>
                     \/ (~isabs /\ acc = <<>>)
                     \/ (acc # <<>> /\ acc[Len(acc)] = <<".", ".">>)
                  THEN NormComps(comps, i + 1, Append(acc, c), isabs)
                  ELSE IF acc # <<>>
                       THEN NormComps(comps, i + 1, SubSeq(acc, 1, Len(acc) - 1), isabs)
                       ELSE NormComps(comps, i + 1, acc, isabs)

\* os.path.normpath
normpath(p) ==
    LET isabs == StartsWith(p, <<"/">>)
        body  == JoinComps(NormComps(Split(p), 1, <<>>, isabs))
        q     == IF isabs THEN <<"/">> \o body ELSE body
    IN  IF q = <<>> THEN <<".">> ELSE q

\* os.path.join(a, b)
join(a, b) ==
    IF StartsWith(b, <<"/">>) THEN b
    ELSE IF a = <<>> \/ EndsWith(a, <<"/">>) THEN a \o b
         ELSE a \o <<"/">> \o b

\* the working directory of the process
Cwd == <<"/">>

\* os.path.abspath
abspath(p) ==
    IF StartsWith(p, <<"/">>) THEN normpath(p) ELSE normpath(join(Cwd, p))

\* os.path.basename
basename(p) ==
    LET comps == Split(p) IN comps[Len(comps)]

\* os.path.commonprefix([a, b]): the longest common leading run of
\* characters (it compares characters, not path components)
RECURSIVE commonprefix(_, _)
commonprefix(a, b) ==
    IF a = <<>> \/ b = <<>> \/ Head(a) # Head(b) THEN <<>>
    ELSE <<Head(a)>> \o commonprefix(Tail(a), Tail(b))

\* decompress.is_within_directory
is_within_directory(directory, target) ==
    LET abs_directory == abspath(directory)
        abs_target    == abspath(target)
        prefix        == commonprefix(abs_directory, abs_target)
    IN  prefix = abs_directory

\* the directories above a normalised absolute path, the root included
Ancestors(p) ==
    LET comps == NormComps(Split(p), 1, <<>>, TRUE)
    IN  { <<"/">> \o JoinComps(SubSeq(comps, 1, k)) : k \in 0..(Len(comps) - 1) }

\* ---------------------------------------------------------------- contents
\* What a regular file holds.  kind is "raw" (bytes of payload number id, in
\* no compressed format), "gz" (a complete gzip stream of inner[1]),
\* "gztrunc" (a gzip stream cut short), "tar" or "zip" (an archive of
\* members).  A tar file stores its members' bytes as they are; short says
\* that the file is short enough for the end record of a zip file stored in
\* it to lie in the tail of the file that zipfile searches for one.
Raw(n)   == [kind |-> "raw", id |-> n, inner |-> <<>>, members |-> <<>>,
             short |-> FALSE]
Gz(c)    == [kind |-> "gz", id |-> 0, inner |-> <<c>>, members |-> <<>>,
             short |-> FALSE]
GzTrunc  == [kind |-> "gztrunc", id |-> 0, inner |-> <<>>, members |-> <<>>,
             short |-> FALSE]
Tar(ms, short) ==
            [kind |-> "tar", id |-> 0, inner |-> <<>>, members |-> ms,
             short |-> short]
Zip(ms)  == [kind |-> "zip", id |-> 0, inner |-> <<>>, members |-> ms,
             short |-> FALSE]

\* archive members: TarInfo / ZipInfo with the bytes they carry
FileMember(name, c) == [name |-> name, isfile |-> TRUE, data |-> <<c>>]
DirMember(name)     == [name |-> name, isfile |-> FALSE, data |-> <<>>]

\* -------------------------------------------------------------- filesystem
\* the state of the filesystem and of the extraction history
FsState(f, d, x) == [fs |-> f, dirs |-> d, extracted |-> x, exc |-> "none"]

\* f with path p holding content c
Put(f, p, c) == [q \in (DOMAIN f) \cup {p} |-> IF q = p THEN c ELSE f[q]]

\* open(path, "wb") followed by write(content): fails with an OSError when
\* the path names a directory or its parent is not an existing directory
OpenWrite(st, path, c) ==
    LET p == normpath(path)
    IN  IF \/ EndsWith(path, <<"/">>)
           \/ p \in st.dirs
           \/ \E a \in Ancestors(p) : a \notin st.dirs
        THEN [st EXCEPT !.exc = "OSError"]
        ELSE [st EXCEPT !.fs = Put(st.fs, p, c)]

\* gzip.open(path, "rb").read(): the decompressed content, an OSError when
\* the file cannot be opened or is not gzip (BadGzipFile), an EOFError when
\* the gzip stream ends before its end-of-stream marker
GzipRead(f, path) ==
    LET p == normpath(path)
    IN  IF p \notin DOMAIN f THEN [exc |-> "OSError", content |-> <<>>]
        ELSE IF f[p].kind = "gz" THEN [exc |-> "none", content |-> f[p].inner]
        ELSE IF f[p].kind = "gztrunc" THEN [exc |-> "EOFError", content |-> <<>>]
        ELSE [exc |-> "OSError", content |-> <<>>]

\* what zipfile reads from a file: it looks for the end-of-central-directory
\* record in the tail of the file and accepts data before and after the
\* archive, so a zip file is one, and so is a short tar file that stores a
\* zip file (the last one stored is the one found); <<>> when it finds none
ZipView(c) ==
    IF c.kind = "zip" THEN <<c.members>>
    ELSE IF c.kind = "tar" /\ c.short
    THEN LET zs == { k \in 1..Len(c.members) :
                        c.members[k].isfile /\ c.members[k].data[1].kind = "zip" }
         IN  IF zs = {} THEN <<>>
             ELSE <<c.members[CHOOSE k \in zs : \A j \in zs : j <= k].data[1].members>>
    ELSE <<>>

\* zipfile.is_zipfile(path): False also when the file cannot be opened
is_zipfile(f, path) ==
    LET p == normpath(path)
    IN  p \in DOMAIN f /\ ZipView(f[p]) # <<>>

\* what tarfile.open(path) reads: a tar archive, also through gzip
\* compression, which tarfile opens transparently; <<>> when it is no tar
TarView(c) ==
    IF c.kind = "tar" THEN <<c.members>>
    ELSE IF c.kind = "gz" /\ c.inner[1].kind = "tar" THEN <<c.inner[1].members>>
    ELSE <<>>

\* tarfile.is_tarfile(path): catches only TarError, so a file that cannot be
\* opened raises the OSError
is_tarfile(f, path) ==
    LET p == normpath(path)
    IN  IF p \notin DOMAIN f THEN [exc |-> "OSError", val |-> FALSE]
        ELSE [exc |-> "none", val |-> TarView(f[p]) # <<>>]

\* extraction of one member to target: makedirs of the directories above,
\* then the file or the directory itself
ExtractMember(st, target, m) ==
    LET p == normpath(target)
    IN  IF \/ \E a \in Ancestors(p) \cup (IF m.isfile THEN {} ELSE {p}) : a \in DOMAIN st.fs
           \/ (m.isfile /\ p \in st.dirs)
        THEN [st EXCEPT !.exc = "OSError"]
        ELSE IF m.isfile
        THEN [st EXCEPT !.fs = Put(st.fs, p, m.data[1]),
                        !.dirs = @ \cup Ancestors(p),
                        !.extracted = @ \cup {p}]
        ELSE [st EXCEPT !.dirs = @ \cup Ancestors(p) \cup {p}]

\* TarFile.extractall(path): every member in archive order, to
\* os.path.join(path, member.name); the first failure ends it
RECURSIVE extractall(_, _, _, _)
extractall(st, path, members, i) ==
    IF i > Len(members) \/ st.exc # "none" THEN st
    ELSE extractall(ExtractMember(st, join(path, members[i].name), members[i]),
                    path, members, i + 1)

\* ZipFile._extract_member's name sanitisation: empty, "." and ".."
\* components are dropped, which also removes a leading "/"
RECURSIVE DropDots(_)
DropDots(comps) ==
    IF comps = <<>> THEN <<>>
    ELSE IF Head(comps) \in {<<>>, <<".">>, <<".", ".">>} THEN DropDots(Tail(comps))
         ELSE <<Head(comps)>> \o DropDots(Tail(comps))

ZipName(name) == JoinComps(DropDots(Split(name)))

\* ZipFile.extractall(path)
RECURSIVE zip_extractall(_, _, _, _)
zip_extractall(st, path, members, i) ==
    IF i > Len(members) \/ st.exc # "none" THEN st
    ELSE zip_extractall(
             ExtractMember(st, join(path, ZipName(members[i].name)), members[i]),
             path, members, i + 1)

\* decompress.safe_extract: every member is checked before any is extracted
safe_extract(st, path, members) ==
    IF \E k \in 1..Len(members) :
           ~is_within_directory(path, join(path, members[k].name))
    THEN [st EXCEPT !.exc = "Exception"]
    ELSE extractall(st, path, members, 1)

\* -------------------------------------------------------------- decompress
\* the allowed extensions of decompress
exts ==
    << <<".", "g", "z">>,
       <<".", "t", "a", "r">>,
       <<".", "z", "i", "p">>,
       <<".", "t", "a", "r", ".", "g", "z">> >>

\* return values and escaping exceptions of one activation.  route is the
\* history of the way an activation took: "pre" (refused by the pre-check),
\* "gz" (gzip-decompressed only), "zip" or "tar" (extracted as one), "err"
\* (an exception), "none" (nothing done)
RetFalse     == [kind |-> "False", val |-> <<>>]
RetPath(p)   == [kind |-> "path", val |-> p]
Raised(e)    == [kind |-> "raised", val |-> <<e>>]
NoValue      == [kind |-> "none", val |-> <<>>]

\* the activation record of decompress(src, dst, recursive) at its entry;
\* arg is the history of the src it was called with and entry the history
\* of what the filesystem was at that moment
Frame(src, dst, recursive) ==
    [src |-> src, arg |-> src, dst |-> dst, recursive |-> recursive,
     filename |-> basename(src),
     pc |-> "start", dst_ |-> <<>>, members |-> <<>>, i |-> 1,
     ret |-> NoValue, route |-> "none",
     entry |-> [fs |-> fs, dirs |-> dirs, probes |-> probes]]

Top == stack[Len(stack)]
SetTop(f) == [stack EXCEPT ![Len(stack)] = f]
Running(pc) == stack # <<>> /\ Top.pc = pc

\* the pre-check as it would be were it made against the module-wide EXTS
\* instead of the local exts
AllowedNameAnyExt(src) == EndsWithAny(src, EXTS)

\* lines 108-111: the pre-check on the source name
AllowedName(src) == EndsWithAny(src, exts)

PreCheck ==
    /\ Running("start")
    /\ stack' = SetTop(IF ~AllowedName(Top.src)
                       THEN [Top EXCEPT !.pc = "ret", !.ret = RetFalse, !.route = "pre"]
                       ELSE [Top EXCEPT !.pc = "gzip"])
    /\ UNCHANGED <<inp, fs, dirs, result, probes, extracted, calls, rwvars>>

\* lines 113-125: the gzip probe.  src is rebound before the output file is
\* opened, so it stays rebound when that open fails; only OSError is caught.
GzipStep ==
    /\ Running("gzip")
    /\ LET r == GzipRead(fs, Top.src)
       IN  IF r.exc = "none"
           THEN LET fname == file_extension(Top.filename, <<>>, <<>>, <<>>, 1)
                    src   == join(Top.dst, fname.val)
                    st    == OpenWrite(FsState(fs, dirs, extracted), src, r.content[1])
                IN  IF fname.raised # "none"
                    THEN /\ stack' = SetTop([Top EXCEPT !.pc = "ret",
                                                        !.ret = Raised(fname.raised),
                                                        !.route = "err"])
                         /\ fs' = fs
                    ELSE /\ stack' = SetTop([Top EXCEPT !.pc = "probe", !.src = src,
                                                        !.route = IF st.exc = "none"
                                                                  THEN "gz" ELSE @])
                         /\ fs' = st.fs
           ELSE IF r.exc = "OSError"
           THEN /\ stack' = SetTop([Top EXCEPT !.pc = "probe"])
                /\ fs' = fs
           ELSE /\ stack' = SetTop([Top EXCEPT !.pc = "ret", !.ret = Raised(r.exc),
                                               !.route = "err"])
                /\ fs' = fs
    /\ probes' = probes + 1
    /\ UNCHANGED <<inp, dirs, result, extracted, calls, rwvars>>

\* lines 128-133: the source is a zip archive
ZipBranch ==
    /\ Running("probe")
    /\ is_zipfile(fs, Top.src)
    /\ LET fname == file_extension(Top.filename, <<>>, <<>>, <<>>, -1)
           dst_  == join(Top.dst, fname.val)
           zip   == ZipView(fs[normpath(Top.src)])[1]
           st    == zip_extractall(FsState(fs, dirs, extracted), dst_, zip, 1)
       IN  IF fname.raised # "none"
           THEN /\ stack' = SetTop([Top EXCEPT !.pc = "ret", !.ret = RetFalse,
                                               !.route = "err"])
                /\ UNCHANGED <<fs, dirs, extracted>>
           ELSE /\ stack' = SetTop([Top EXCEPT !.pc = "ret", !.dst_ = dst_,
                                               !.members = zip,
                                               !.route = IF st.exc = "none" THEN "zip" ELSE "err",
                                               !.ret = IF st.exc = "none"
                                                       THEN RetPath(dst_)
                                                       ELSE RetFalse])
                /\ fs' = st.fs
                /\ dirs' = st.dirs
                /\ extracted' = st.extracted
    /\ probes' = probes + 1
    /\ UNCHANGED <<inp, result, calls, rwvars>>

\* lines 134-159: the source is a tar archive; safe_extract, then either
\* the recursive loop or the return of the extraction directory
TarBranch ==
    /\ Running("probe")
    /\ ~is_zipfile(fs, Top.src)
    /\ is_tarfile(fs, Top.src).exc = "none"
    /\ is_tarfile(fs, Top.src).val
    /\ LET fname == file_extension(Top.filename, <<>>, <<>>, <<>>, -1)
           dst_  == join(Top.dst, fname.val)
           tar   == TarView(fs[normpath(Top.src)])[1]
           st    == safe_extract(FsState(fs, dirs, extracted), dst_, tar)
       IN  IF fname.raised # "none"
           THEN /\ stack' = SetTop([Top EXCEPT !.pc = "ret", !.ret = RetFalse,
                                               !.route = "err"])
                /\ UNCHANGED <<fs, dirs, extracted>>
           ELSE /\ stack' = SetTop(
                      IF st.exc # "none"
                      THEN [Top EXCEPT !.pc = "ret", !.dst_ = dst_, !.members = tar,
                                       !.route = "err", !.ret = RetFalse]
                      ELSE IF Top.recursive
                      THEN [Top EXCEPT !.pc = "loop", !.dst_ = dst_, !.members = tar,
                                       !.route = "tar", !.i = 1]
                      ELSE [Top EXCEPT !.pc = "ret", !.dst_ = dst_, !.members = tar,
                                       !.route = "tar", !.ret = RetPath(dst_)])
                /\ fs' = st.fs
                /\ dirs' = st.dirs
                /\ extracted' = st.extracted
    /\ probes' = probes + 1
    /\ UNCHANGED <<inp, result, calls, rwvars>>

\* lines 128, 134, 169-173: neither zip nor tar.  The working src is
\* returned, or False when is_tarfile raised
NoArchive ==
    /\ Running("probe")
    /\ ~is_zipfile(fs, Top.src)
    /\ ~(is_tarfile(fs, Top.src).exc = "none" /\ is_tarfile(fs, Top.src).val)
    /\ stack' = SetTop([Top EXCEPT !.pc = "ret",
                                   !.ret = IF is_tarfile(fs, Top.src).exc # "none"
                                           THEN RetFalse
                                           ELSE RetPath(Top.src)])
    /\ probes' = probes + 1
    /\ UNCHANGED <<inp, fs, dirs, result, extracted, calls, rwvars>>

\* lines 161-167: the member under the loop is a regular file: decompress is
\* called on it
LoopCall ==
    /\ Running("loop")
    /\ Top.i <= Len(Top.members)
    /\ Top.members[Top.i].isfile
    /\ LET src == join(Top.dst_, Top.members[Top.i].name)
       IN  /\ stack' = Append(stack, Frame(src, Top.dst_, Top.recursive))
           /\ calls' = Append(calls, [src |-> src, dst |-> Top.dst_,
                                      recursive |-> Top.recursive,
                                      depth |-> Len(stack) + 1])
    /\ UNCHANGED <<inp, fs, dirs, result, probes, extracted, rwvars>>

\* lines 161-162: the member under the loop is not a regular file
LoopSkip ==
    /\ Running("loop")
    /\ Top.i <= Len(Top.members)
    /\ ~Top.members[Top.i].isfile
    /\ stack' = SetTop([Top EXCEPT !.i = @ + 1])
    /\ UNCHANGED <<inp, fs, dirs, result, probes, extracted, calls, rwvars>>

\* line 168: the loop is over
LoopEnd ==
    /\ Running("loop")
    /\ Top.i > Len(Top.members)
    /\ stack' = SetTop([Top EXCEPT !.pc = "ret", !.ret = RetPath(Top.dst_)])
    /\ UNCHANGED <<inp, fs, dirs, result, probes, extracted, calls, rwvars>>

\* a nested call ends: its value is dropped by the loop of the caller
\* (lines 163-167), and an exception it raised is caught by the caller's
\* except Exception (lines 169-171)
ReturnNested ==
    /\ Running("ret")
    /\ Len(stack) > 1
    /\ LET caller == stack[Len(stack) - 1]
           after  == IF Top.ret.kind = "raised"
                     THEN [caller EXCEPT !.pc = "ret", !.ret = RetFalse]
                     ELSE [caller EXCEPT !.i = @ + 1]
       IN  stack' = Append(SubSeq(stack, 1, Len(stack) - 2), after)
    /\ UNCHANGED <<inp, fs, dirs, result, probes, extracted, calls, rwvars>>

\* the top-level call ends: the caller of decompress gets its value, or the
\* exception that escaped it
ReturnTop ==
    /\ Running("ret")
    /\ Len(stack) = 1
    /\ result' = <<[kind |-> Top.ret.kind, val |-> Top.ret.val,
                    route |-> Top.route, dst_ |-> Top.dst_,
                    members |-> Top.members]>>
    /\ stack' = <<>>
    /\ UNCHANGED <<inp, fs, dirs, probes, extracted, calls, rwvars>>

\* ------------------------------------------------------------------ inputs
\* names
N_f      == <<"f">>
N_g      == <<"g">>
N_s      == <<"s">>
N_sf     == <<"s", "/", "f">>
N_izip   == <<"i", ".", "z", "i", "p">>
N_ngz    == <<"n", ".", "g", "z">>
N_sib    == <<".", ".", "/", "x", "y">>
N_esc    == <<".", ".", "/", ".", ".", "/", "e">>

\* the names a source file may have: the four allowed extensions, an
\* extension occurring twice, and names the pre-check refuses
SrcNames ==
    { <<"x", ".", "g", "z">>,
      <<"x", ".", "t", "a", "r">>,
      <<"x", ".", "z", "i", "p">>,
      <<"x", ".", "t", "a", "r", ".", "g", "z">>,
      <<"x", ".", "g", "z", ".", "g", "z">>,
      <<"x", ".", "t", "x", "t">>,
      <<"x">> }

SrcDirs == { <<"/", "s">>, <<"/", "d">> }
DstDir  == <<"/", "d">>

Payloads == 1..NumPayloads
Other(p) == (p % NumPayloads) + 1

\* archives around payload p
TarPlain(p) == Tar(<<FileMember(N_f, Raw(p))>>, FALSE)
ZipPlain(p) == Zip(<<FileMember(N_g, Raw(p))>>)
TarNested(p, short) ==
    Tar(<<DirMember(N_s),
          FileMember(N_sf, Raw(p)),
          FileMember(N_izip, ZipPlain(Other(p))),
          FileMember(N_ngz, Gz(Raw(Other(p))))>>, short)
TarSibling(p) ==
    Tar(<<FileMember(N_f, Raw(p)), FileMember(N_sib, Raw(Other(p)))>>, FALSE)
TarEscape(p) ==
    Tar(<<FileMember(N_f, Raw(p)), FileMember(N_esc, Raw(Other(p)))>>, FALSE)
TarBroken(p, short) ==
    Tar(<<FileMember(N_ngz, GzTrunc), FileMember(N_izip, ZipPlain(p))>>, short)

Plain(p) ==
    { Raw(p), TarPlain(p), ZipPlain(p), TarSibling(p), TarEscape(p) }
    \cup { TarNested(p, b) : b \in BOOLEAN }
    \cup { TarBroken(p, b) : b \in BOOLEAN }

\* what the source file may hold: each of the above, bare or gzip-compressed,
\* or a truncated gzip stream
SrcContents ==
    LET plain == UNION { Plain(p) : p \in Payloads }
    IN  plain \cup { Gz(c) : c \in plain } \cup { GzTrunc }

\* the arguments of file_extension
RwFiles ==
    { <<"a">>,
      <<"a", ".", "g", "z">>,
      <<"a", ".", "t", "i", "f">>,
      <<"a", ".", "f", "o", "o">>,
      <<"a", ".", "g", "z", ".", "g", "z">>,
      <<"a", ".", "g", "r", "b", ".", "g", "z">>,
      <<"d", "a", "t", "a", ".", "t", "a", "r", ".", "g", "z">>,
      <<"m", "y", ".", "t", "a", "r", ".", "b", "a", "k", ".", "t", "a", "r">> }

RwPreffixes == { <<>>, << <<"p">> >> }
RwSuffixes  == { <<>>, <<".", "t", "i", "f">>, <<"_", "v">> }
RwExtensions ==
    { <<>>,
      << <<".", "g", "z">> >>,
      << <<".", "f", "o", "o">> >>,
      << <<".", "f", "o", "o">>, <<".", "t", "a", "r">> >> }

NoCall == [file |-> <<>>, preffix |-> <<>>, suffix |-> <<>>,
           extension |-> <<>>, maxsplit |-> 0]
NoInput == [dir |-> <<>>, name |-> <<>>, content |-> Raw(0), recursive |-> FALSE,
            dst |-> <<>>]

\* ---------------------------------------------------------- specifications
\* one decompress call: the source file exists, the destination directory
\* exists and the call has been entered
Init ==
    /\ rw = NoCall
    /\ rwout = <<>>
    /\ inp \in [dir : SrcDirs, name : SrcNames, content : SrcContents,
                recursive : BOOLEAN, dst : {DstDir}]
    /\ fs = Put(<<>>, normpath(join(inp.dir, inp.name)), inp.content)
    /\ dirs = { <<"/">>, inp.dir, inp.dst }
    /\ probes = 0
    /\ extracted = {}
    /\ calls = <<>>
    /\ result = <<>>
    /\ stack = <<Frame(join(inp.dir, inp.name), inp.dst, inp.recursive)>>

Next ==
    \/ PreCheck
    \/ GzipStep
    \/ ZipBranch
    \/ TarBranch
    \/ NoArchive
    \/ LoopCall
    \/ LoopSkip
    \/ LoopEnd
    \/ ReturnNested
    \/ ReturnTop

Spec == Init /\ [][Next]_vars

\* one file_extension call
CallFileExtension ==
    /\ rwout = <<>>
    /\ rwout' = <<file_extension(rw.file, rw.preffix, rw.suffix, rw.extension,
                                 rw.maxsplit)>>
    /\ UNCHANGED <<rw, dcvars>>

InitRw ==
    /\ rw \in [file : RwFiles, preffix : RwPreffixes, suffix : RwSuffixes,
               extension : RwExtensions, maxsplit : (-MaxSplit)..MaxSplit]
    /\ rwout = <<>>
    /\ inp = NoInput
    /\ fs = <<>>
    /\ dirs = {}
    /\ probes = 0
    /\ extracted = {}
    /\ calls = <<>>
    /\ result = <<>>
    /\ stack = <<>>

NextRw == CallFileExtension

SpecRw == InitRw /\ [][NextRw]_vars

\* ------------------------------------------------------------------ claims
Done == result # <<>>
Res  == result[1]

\* the source file of the top-level call and the filesystem it started from
SrcPath     == normpath(join(inp.dir, inp.name))
InitialFs   == Put(<<>>, SrcPath, inp.content)
InitialDirs == { <<"/">>, inp.dir, inp.dst }

\* the components of an absolute path, ".." resolved
PathComps(p) == NormComps(Split(p), 1, <<>>, TRUE)

\* target is located inside directory: directory's components lead target's
Inside(directory, target) ==
    LET d == PathComps(directory)
        t == PathComps(target)
    IN  Len(d) <= Len(t) /\ SubSeq(t, 1, Len(d)) = d

\* the name ends with .gz, .tar, .zip or .tar.gz
NameAllowed(name) ==
    \E e \in { <<".", "g", "z">>, <<".", "t", "a", "r">>, <<".", "z", "i", "p">>,
               <<".", "t", "a", "r", ".", "g", "z">> } : EndsWith(name, e)

\* the content of the source after the optional gzip step
Effective == IF inp.content.kind = "gz" THEN inp.content.inner[1] ELSE inp.content

\* destination/<basename-without-extension> of the top-level call
ExtractDir == join(inp.dst, file_extension(inp.name, <<>>, <<>>, <<>>, -1).val)

\* some member of the archive resolves outside the extraction directory
HasEscaping(members) ==
    \E k \in 1..Len(members) : ~Inside(ExtractDir, join(ExtractDir, members[k].name))

\* every regular-file member is at its place under directory
AllExtracted(directory, members) ==
    \A k \in 1..Len(members) :
        members[k].isfile =>
            LET q == normpath(join(directory, members[k].name))
            IN  q \in DOMAIN fs /\ fs[q] = members[k].data[1]

\* C1: when a tar source (plain or gzip-wrapped) has a member that resolves
\* outside destination/<basename-without-extension>, no member is extracted,
\* decompress returns False and no file is created outside the destination.
C1_TraversalGuard ==
    (Done /\ NameAllowed(inp.name) /\ Effective.kind = "tar"
          /\ HasEscaping(Effective.members))
    => /\ Res.kind = "False"
       /\ extracted = {}
       /\ \A q \in (DOMAIN fs) \ (DOMAIN InitialFs) : Inside(inp.dst, q)

\* C2: decompress ends by returning a path or False; no exception escapes.
C2_NoEscapingException ==
    Done => Res.kind \in {"path", "False"}

\* C3: a source with an allowed name that holds, after the optional gzip
\* step, a zip archive or a tar archive with no escaping member is extracted
\* into destination/<basename-without-extension>, which is returned.  (Stated
\* for the tar archives that zipfile does not take for a zip file.)
C3_ArchiveExtracted ==
    (Done /\ NameAllowed(inp.name)
          /\ \/ Effective.kind = "zip"
             \/ /\ Effective.kind = "tar"
                /\ ~HasEscaping(Effective.members)
                /\ ZipView(Effective) = <<>>)
    => /\ Res.kind = "path"
       /\ Res.val = ExtractDir
       /\ AllExtracted(ExtractDir, Effective.members)

\* the basename with exactly one trailing extension level stripped: the part
\* before the first entry of EXTS that is a trailing match
StripOne(name) ==
    LET k == CHOOSE i \in 1..Len(EXTS) :
                 /\ EndsWith(name, EXTS[i])
                 /\ \A j \in 1..(i - 1) : ~EndsWith(name, EXTS[j])
    IN  SubSeq(name, 1, Len(name) - Len(EXTS[k]))

\* C4: a gzip-compressed payload that is neither zip nor tar, under an
\* allowed name, comes back as destination/<basename with one trailing
\* extension level stripped>, holding the payload, the source untouched.
C4_GzipRoundTrip ==
    (Done /\ NameAllowed(inp.name) /\ inp.content.kind = "gz"
          /\ Effective.kind = "raw")
    => /\ Res.kind = "path"
       /\ Res.val = join(inp.dst, StripOne(inp.name))
       /\ normpath(Res.val) \in DOMAIN fs
       /\ fs[normpath(Res.val)] = Effective
       /\ fs[SrcPath] = inp.content

\* the nested calls the loop of the outer call owes: one per regular-file
\* member, in archive order, on <extraction dir>/<member name>
RECURSIVE OwedCalls(_, _, _, _)
OwedCalls(members, i, directory, recursive) ==
    IF i > Len(members) THEN <<>>
    ELSE (IF members[i].isfile
          THEN <<[src |-> join(directory, members[i].name), dst |-> directory,
                  recursive |-> recursive, depth |-> 2]>>
          ELSE <<>>) \o OwedCalls(members, i + 1, directory, recursive)

\* the archive stored as member m is extracted into a subdirectory of
\* directory
NestedExtracted(directory, m) ==
    LET sub == join(directory,
                    file_extension(basename(m.name), <<>>, <<>>, <<>>, -1).val)
    IN  /\ normpath(sub) # normpath(directory)
        /\ Inside(directory, sub)
        /\ AllExtracted(sub, m.data[1].members)

\* C5: with recursive=true, once the outer tar is extracted: it is fully
\* extracted before any nested call starts; decompress is called on every
\* regular-file member with the extraction directory as destination; every
\* nested archive ends up in a subdirectory of it; and the outer call
\* returns the extraction directory whatever the nested calls did.
C5_RecursiveTar ==
    /\ Len(stack) >= 2 => AllExtracted(stack[1].dst_, stack[1].members)
    /\ (Done /\ Res.route = "tar" /\ inp.recursive)
       => /\ Res.kind = "path"
          /\ Res.val = Res.dst_
          /\ SelectSeq(calls, LAMBDA c : c.depth = 2)
                 = OwedCalls(Res.members, 1, Res.dst_, TRUE)
          /\ \A k \in 1..Len(Res.members) :
                 (/\ Res.members[k].isfile
                  /\ Res.members[k].data[1].kind \in {"zip", "tar"}
                  /\ NameAllowed(Res.members[k].name))
                 => NestedExtracted(Res.dst_, Res.members[k])

\* C6: a returned path is a file or directory this call extracted, and a
\* source whose content is in no recognized compressed format gets False.
C6_ResultMeaning ==
    (Done /\ NameAllowed(inp.name))
    => /\ Res.kind = "path" =>
             /\ normpath(Res.val) \in (DOMAIN fs) \cup dirs
             /\ normpath(Res.val) \notin (DOMAIN InitialFs) \cup InitialDirs
       /\ inp.content.kind = "raw" => Res.kind = "False"

\* C7: a call on a source whose name does not end with .gz, .tar, .zip or
\* .tar.gz returns False at once: no probe is attempted and the filesystem
\* is what it was when the call was entered, at every depth of the recursion
\* and whatever the content and the recursive flag.
C7_PreCheckFrame ==
    /\ \A k \in 1..Len(stack) :
           (stack[k].pc = "ret" /\ ~NameAllowed(stack[k].arg))
           => /\ stack[k].ret = RetFalse
              /\ fs = stack[k].entry.fs
              /\ dirs = stack[k].entry.dirs
              /\ probes = stack[k].entry.probes
    /\ (Done /\ ~NameAllowed(inp.name))
       => /\ Res.kind = "False"
          /\ fs = InitialFs
          /\ dirs = InitialDirs
          /\ probes = 0
          /\ calls = <<>>

\* C7 happens: a call on a gzip-compressed file under a refused name, with
\* recursive=true, has returned
C7_Witness ==
    /\ Done
    /\ ~NameAllowed(inp.name)
    /\ inp.content.kind = "gz"
    /\ inp.recursive

\* ---------------------------------------------------- file_extension claims
RwDone == rwout # <<>>
RwRes  == rwout[1]

\* the entries of EXTS that are a trailing match of f
Trailing(f) == { i \in 1..Len(EXTS) : EndsWith(f, EXTS[i]) }

\* f with its trailing extension e replaced by s
ReplaceTrailing(f, e, s) == SubSeq(f, 1, Len(f) - Len(e)) \o s

\* C8: for a filename that ends in a recognized extension the result is
\* p + s, where f = p + e for the selected trailing extension e: only the
\* trailing occurrence is replaced.
C8_TrailingOnly ==
    (RwDone /\ rw.preffix = <<>> /\ rw.extension = <<>> /\ Trailing(rw.file) # {}
            /\ RwRes.raised = "none")
    => \E i \in Trailing(rw.file) :
           RwRes.val = ReplaceTrailing(rw.file, EXTS[i], rw.suffix)

\* the index the selection rule gives among n candidates: maxsplit - 1 when
\* positive, maxsplit itself (from the end when negative) otherwise, clamped
\* into 0 .. n-1
ClampedIndex(maxsplit, n) ==
    LET k == IF maxsplit > 0 THEN maxsplit - 1
             ELSE IF maxsplit < 0 THEN maxsplit + n ELSE 0
    IN  IF k < 0 THEN 0 ELSE IF k > n - 1 THEN n - 1 ELSE k

\* C9: for every maxsplit a candidate is selected, the one at the clamped
\* index of the candidate list.
C9_ClampedSelection ==
    (RwDone /\ rw.preffix = <<>> /\ rw.extension = <<>> /\ Trailing(rw.file) # {})
    => LET cands == Candidates(rw.file, rw.suffix, 1)
       IN  /\ RwRes.raised = "none"
           /\ RwRes.val = cands[ClampedIndex(rw.maxsplit, Len(cands)) + 1]

\* C10: file_extension raises nothing, whatever the override; and when the
\* prefixed filename ends with none of the active candidates the result is
\* prefix + filename + suffix.  (maxsplit is kept at or above -1 here, the
\* range in which the selection cannot run below the list.)
C10_Total ==
    (RwDone /\ rw.maxsplit >= -1)
    => LET f      == IF rw.preffix # <<>> THEN rw.preffix[1] \o rw.file ELSE rw.file
           active == IF rw.extension # <<>> THEN rw.extension ELSE EXTS
       IN  /\ RwRes.raised = "none"
           /\ (\A i \in 1..Len(active) : ~EndsWith(f, active[i]))
                  => RwRes.val = f \o rw.suffix

====
